---- MODULE Spec2Model ----
(***************************************************************************)
(* Rate limiter (rate-limiter/ratelimiter.go) and rate-limited worker pool *)
(* (scraper/scraper.go) of awesome-tools.                                  *)
(*                                                                         *)
(* Goroutines are processes with a program counter, channels are buffers   *)
(* (limitCh a token count, urlChan and results FIFO sequences, stopCh an   *)
(* unbuffered rendezvous), a Go select with several ready cases is a       *)
(* nondeterministic choice between the actions of its cases.  Time is      *)
(* discrete: Advance lets one time unit pass; the ticker fires on every    *)
(* period-th unit after its creation.  Instead of absolute times the model *)
(* keeps the ages of the recent token issues and acquisitions, which keeps *)
(* the state space finite however long a run lasts.                        *)
(***************************************************************************)
EXTENDS Integers, Sequences, FiniteSets

\* Bounds of the model.
MaxIntervals == 2
MaxPeriod == 2
MaxItems == 2
MaxWorkers == 2
MaxClients == 2
MaxAcquired == 3

VARIABLES
    timeSpan,     \* NewRateLimiter's timeSpan, in time units
    intervals,    \* NewRateLimiter's intervals
    maxWorkers,   \* RateLimitedScraper.maxWorkers
    urls,         \* ScrapeURLs' urls: the submitted items, by position
    called,       \* ScrapeURLs has been called
    ctxDone,      \* the context given to ScrapeURLs is cancelled
    rlCtxDone,    \* the context given to NewRateLimiter is cancelled
    limitCh,      \* number of tokens buffered in RateLimiter.limitCh
    rlPc,         \* position of the limiter's goroutine
    tickerOn,     \* the goroutine's ticker exists and is not stopped
    tickPending,  \* a tick is buffered in ticker.C
    phase,        \* time units since the ticker's last firing time
    putAge,       \* ages of the tokens put into limitCh less than timeSpan ago
    acqAge,       \* ages of the token acquisitions less than timeSpan ago
    issued,       \* tokens put into limitCh so far
    acquired,     \* tokens received from limitCh so far
    urlChan,      \* buffer of urlChan
    urlClosed,    \* number of close(urlChan) executed
    seedIdx,      \* items the seeding goroutine has sent
    seedPc,       \* position of the seeding goroutine
    wpc,          \* position of each worker goroutine
    witem,        \* the item (url, result) a worker holds
    wg,           \* counter of the sync.WaitGroup
    supPc,        \* position of the supervisor goroutine
    results,      \* buffer of the results channel
    resClosed,    \* number of close(results) executed
    recvCount,    \* per item: times it was received from urlChan
    invoked,      \* per item: times scrapeFunc was invoked on it
    returned,     \* per item: the Results scrapeFunc returned for it
    delivered,    \* per item: the Results sent on the results channel
    clock,        \* the run is observed with a clock: token events are dated
    cpc,          \* position of each client goroutine using the limiter
    cgot,         \* per client: tokens it has received from limitCh
    rlm,          \* RateLimitedScraper.rlm: "nil" or "set"
    setCalled,    \* SetRateLimit has been called
    ret,          \* what ScrapeURLs returned: "none" yet, a "stream" or an "error"
    panicked,     \* a goroutine of the process has panicked
    now,          \* with a clock: time units since NewRateLimiter, up to Horizon
    again,        \* ScrapeURLs has been called a second time on the scraper
    left,         \* tokens in limitCh when that second call was made
    prev          \* the limiter a second SetRateLimit call has replaced

limiterVars == <<timeSpan, intervals, clock, rlCtxDone, limitCh, rlPc, tickerOn,
                 tickPending, phase, putAge, acqAge, issued, acquired>>
scraperVars == <<maxWorkers, urls, called, ctxDone, urlChan, urlClosed, seedIdx,
                 seedPc, wpc, witem, wg, supPc, results, resClosed, recvCount,
                 invoked, returned, delivered>>
runVars == <<again, left, prev>>
extVars == <<cgot, rlm, setCalled, ret, panicked, now, runVars>>
vars == <<limiterVars, scraperVars, cpc, extVars>>

Workers == 1..MaxWorkers

\* No limiter has been replaced: the record of a limiter that does not exist.
NoPrev == [pc |-> "none", intervals |-> 0, limitCh |-> 0, tickerOn |-> FALSE,
           tickPending |-> FALSE, ctxDone |-> FALSE]
Items == 1..MaxItems
Clients == 1..MaxClients

\* type Result struct {URL, Content, Error}: the item and whether Error is non-nil
Result == [url : Items, err : BOOLEAN]
NoResult == [url |-> 0, err |-> FALSE]

\* The time up to which the clock's reading is kept: beyond it `now` stays.
Horizon == (MaxIntervals + 1) * MaxPeriod

\* timeSpan / time.Duration(intervals): Go's integer division
Period == timeSpan \div intervals

\* An age list with one more event, which happens now.
Stamp(ages) == IF clock THEN Append(ages, 0) ELSE ages

\* An age list after one more time unit; events timeSpan old or older leave it.
Older(ages) == LET aged == [k \in 1..Len(ages) |-> ages[k] + 1]
               IN  SelectSeq(aged, LAMBDA a : a < timeSpan)

----------------------------------------------------------------------------
\* The clock and the ticker's timer.

TickFires == tickerOn /\ phase + 1 = Period

\* Mutant of Advance: the ticker fires on every time unit, whatever its period.
Advance_EveryUnit ==
    /\ phase' = IF tickerOn THEN (phase + 1) % Period ELSE phase
    /\ tickPending' = (tickPending \/ tickerOn)
    /\ putAge' = Older(putAge)
    /\ acqAge' = Older(acqAge)
    /\ now' = IF now < Horizon THEN now + 1 ELSE now
    /\ UNCHANGED <<timeSpan, intervals, clock, rlCtxDone, limitCh, rlPc, tickerOn,
                   issued, acquired>>
    /\ UNCHANGED <<scraperVars, cpc, cgot, rlm, setCalled, ret, panicked>>
    /\ UNCHANGED runVars

\* One time unit passes.  A firing ticker does a non-blocking send on ticker.C,
\* whose buffer holds one tick: a tick that finds it full is dropped.
Advance ==
    /\ phase' = IF tickerOn THEN (phase + 1) % Period ELSE phase
    /\ tickPending' = (tickPending \/ TickFires)
    /\ putAge' = Older(putAge)
    /\ acqAge' = Older(acqAge)
    /\ now' = IF now < Horizon THEN now + 1 ELSE now
    /\ UNCHANGED <<timeSpan, intervals, clock, rlCtxDone, limitCh, rlPc, tickerOn,
                   issued, acquired>>
    /\ UNCHANGED <<scraperVars, cpc, cgot, rlm, setCalled, ret, panicked>>
    /\ UNCHANGED runVars

\* The same timer when no clock observes the run: the next firing time arrives,
\* however much time that takes.
Tick ==
    /\ tickerOn
    /\ tickPending' = TRUE
    /\ UNCHANGED <<timeSpan, intervals, clock, rlCtxDone, limitCh, rlPc, tickerOn,
                   phase, putAge, acqAge, issued, acquired>>
    /\ UNCHANGED <<scraperVars, cpc, extVars>>

----------------------------------------------------------------------------
\* The goroutine of NewRateLimiter.

\* Mutant of RL_Start: the goroutine fills limitCh before its first tick (a
\* bucket that starts full).
RL_Start_Full ==
    /\ rlPc = "start"
    /\ intervals # 0
    /\ rlPc' = "select"
    /\ tickerOn' = TRUE
    /\ phase' = 0
    /\ limitCh' = intervals
    /\ issued' = issued + intervals
    /\ UNCHANGED <<timeSpan, intervals, clock, rlCtxDone, tickPending,
                   putAge, acqAge, acquired>>
    /\ UNCHANGED <<scraperVars, cpc, extVars>>

\* ticker := time.NewTicker(timeSpan / time.Duration(intervals)), intervals # 0
RL_Start ==
    /\ rlPc = "start"
    /\ intervals # 0
    /\ rlPc' = "select"
    /\ tickerOn' = TRUE
    /\ phase' = 0
    /\ UNCHANGED <<timeSpan, intervals, clock, rlCtxDone, limitCh, tickPending,
                   putAge, acqAge, issued, acquired>>
    /\ UNCHANGED <<scraperVars, cpc, extVars>>

\* Mutant of RL_Tick: the goroutine goes to its send without a tick.
RL_Tick_NoWait ==
    /\ rlPc = "select"
    /\ tickPending' = FALSE
    /\ rlPc' = "send"
    /\ UNCHANGED <<timeSpan, intervals, clock, rlCtxDone, limitCh, tickerOn, phase,
                   putAge, acqAge, issued, acquired>>
    /\ UNCHANGED <<scraperVars, cpc, extVars>>

\* case <-ticker.C:
RL_Tick ==
    /\ rlPc = "select"
    /\ tickPending
    /\ tickPending' = FALSE
    /\ rlPc' = "send"
    /\ UNCHANGED <<timeSpan, intervals, clock, rlCtxDone, limitCh, tickerOn, phase,
                   putAge, acqAge, issued, acquired>>
    /\ UNCHANGED <<scraperVars, cpc, extVars>>

\* limitCh <- struct{}{}: blocks while the buffer is full
RL_Send ==
    /\ rlPc = "send"
    /\ limitCh < intervals
    /\ limitCh' = limitCh + 1
    /\ issued' = issued + 1
    /\ putAge' = Stamp(putAge)
    /\ rlPc' = "select"
    /\ UNCHANGED <<timeSpan, intervals, clock, rlCtxDone, tickerOn, tickPending,
                   phase, acqAge, acquired>>
    /\ UNCHANGED <<scraperVars, cpc, extVars>>

\* case <-ctx.Done(): return (and the deferred ticker.Stop())
RL_CtxDone ==
    /\ rlPc = "select"
    /\ rlCtxDone
    /\ rlPc' = "done"
    /\ tickerOn' = FALSE
    /\ UNCHANGED <<timeSpan, intervals, clock, rlCtxDone, limitCh, tickPending,
                   phase, putAge, acqAge, issued, acquired>>
    /\ UNCHANGED <<scraperVars, cpc, extVars>>

\* case <-stopCh: return (and the deferred ticker.Stop()).  stopCh is unbuffered:
\* the receive pairs with the send of a caller blocked in Stop(), which returns.
RL_Stop ==
    /\ rlPc = "select"
    /\ supPc = "stop"
    /\ supPc' = "done"
    /\ rlPc' = "done"
    /\ tickerOn' = FALSE
    /\ UNCHANGED <<timeSpan, intervals, clock, rlCtxDone, limitCh, tickPending,
                   phase, putAge, acqAge, issued, acquired>>
    /\ UNCHANGED <<maxWorkers, urls, called, ctxDone, urlChan, urlClosed, seedIdx,
                   seedPc, wpc, witem, wg, results, resClosed, recvCount,
                   invoked, returned, delivered, cpc, extVars>>

----------------------------------------------------------------------------
\* RateLimitedScraper.ScrapeURLs and its goroutines.

\* Mutant of ScrapeURLs: the worker loop runs once too often (i <= s.maxWorkers).
ScrapeURLs_ExtraWorker(n) ==
    /\ ~called
    /\ rlm = "set"
    /\ called' = TRUE
    /\ ret' = "stream"
    /\ urls' = [k \in 1..n |-> k]
    /\ seedPc' = "loop"
    /\ wpc' = [w \in Workers |-> IF w <= maxWorkers + 1 THEN "recv" ELSE "none"]
    /\ wg' = Cardinality({w \in Workers : w <= maxWorkers + 1})
    /\ supPc' = "wait"
    /\ UNCHANGED <<maxWorkers, ctxDone, urlChan, urlClosed, seedIdx, witem, results,
                   resClosed, recvCount, invoked, returned, delivered>>
    /\ UNCHANGED <<limiterVars, cpc, cgot, rlm, setCalled, panicked, now>>
    /\ UNCHANGED runVars

\* Mutant of ScrapeURLs: at least one worker is started whatever maxWorkers is.
ScrapeURLs_AtLeastOne(n) ==
    /\ ~called
    /\ rlm = "set"
    /\ called' = TRUE
    /\ ret' = "stream"
    /\ urls' = [k \in 1..n |-> k]
    /\ seedPc' = "loop"
    /\ wpc' = [w \in Workers |-> IF w <= maxWorkers \/ w = 1 THEN "recv" ELSE "none"]
    /\ wg' = Cardinality({w \in Workers : w <= maxWorkers \/ w = 1})
    /\ supPc' = "wait"
    /\ UNCHANGED <<maxWorkers, ctxDone, urlChan, urlClosed, seedIdx, witem, results,
                   resClosed, recvCount, invoked, returned, delivered>>
    /\ UNCHANGED <<limiterVars, cpc, cgot, rlm, setCalled, panicked, now>>
    /\ UNCHANGED runVars

\* The synchronous part of ScrapeURLs(ctx, urls) on a scraper whose limiter is
\* set (s.rlm != nil): both channels get capacity len(urls); the seeding
\* goroutine, maxWorkers workers (wg.Add(1) each) and the supervisor are started,
\* and the results channel is returned with a nil error.
ScrapeURLs(n) ==
    /\ ~called
    /\ rlm = "set"
    /\ called' = TRUE
    /\ ret' = "stream"
    /\ urls' = [k \in 1..n |-> k]
    /\ seedPc' = "loop"
    /\ wpc' = [w \in Workers |-> IF w <= maxWorkers THEN "recv" ELSE "none"]
    /\ wg' = Cardinality({w \in Workers : w <= maxWorkers})
    /\ supPc' = "wait"
    /\ UNCHANGED <<maxWorkers, ctxDone, urlChan, urlClosed, seedIdx, witem, results,
                   resClosed, recvCount, invoked, returned, delivered>>
    /\ UNCHANGED <<limiterVars, cpc, cgot, rlm, setCalled, panicked, now>>
    /\ UNCHANGED runVars

\* Mutant of Seed_Send: the items are sent from the last one to the first.
Seed_Send_Reverse ==
    /\ seedPc = "loop"
    /\ seedIdx < Len(urls)
    /\ Len(urlChan) < Len(urls)
    /\ urlChan' = Append(urlChan, urls[Len(urls) - seedIdx])
    /\ seedIdx' = seedIdx + 1
    /\ UNCHANGED <<maxWorkers, urls, called, ctxDone, urlClosed, seedPc, wpc, witem,
                   wg, supPc, results, resClosed, recvCount, invoked, returned,
                   delivered>>
    /\ UNCHANGED <<limiterVars, cpc, extVars>>

\* case urlChan <- url: (the buffer holds len(urls) items, so it never blocks)
Seed_Send ==
    /\ seedPc = "loop"
    /\ seedIdx < Len(urls)
    /\ Len(urlChan) < Len(urls)
    /\ urlChan' = Append(urlChan, urls[seedIdx + 1])
    /\ seedIdx' = seedIdx + 1
    /\ UNCHANGED <<maxWorkers, urls, called, ctxDone, urlClosed, seedPc, wpc, witem,
                   wg, supPc, results, resClosed, recvCount, invoked, returned,
                   delivered>>
    /\ UNCHANGED <<limiterVars, cpc, extVars>>

\* Mutant of Seed_CtxDone: the seeding goroutine returns without close(urlChan).
Seed_CtxDone_NoClose ==
    /\ seedPc = "loop"
    /\ seedIdx < Len(urls)
    /\ ctxDone
    /\ seedPc' = "done"
    /\ UNCHANGED <<maxWorkers, urls, called, ctxDone, urlChan, urlClosed, seedIdx,
                   wpc, witem, wg, supPc, results, resClosed, recvCount, invoked,
                   returned, delivered>>
    /\ UNCHANGED <<limiterVars, cpc, extVars>>

\* case <-ctx.Done(): return, and the deferred close(urlChan)
Seed_CtxDone ==
    /\ seedPc = "loop"
    /\ seedIdx < Len(urls)
    /\ ctxDone
    /\ seedPc' = "done"
    /\ urlClosed' = urlClosed + 1
    /\ UNCHANGED <<maxWorkers, urls, called, ctxDone, urlChan, seedIdx, wpc, witem,
                   wg, supPc, results, resClosed, recvCount, invoked, returned,
                   delivered>>
    /\ UNCHANGED <<limiterVars, cpc, extVars>>

\* Mutant of Seed_Finish: the seeding goroutine returns without close(urlChan).
Seed_Finish_NoClose ==
    /\ seedPc = "loop"
    /\ seedIdx = Len(urls)
    /\ seedPc' = "done"
    /\ UNCHANGED <<maxWorkers, urls, called, ctxDone, urlChan, urlClosed, seedIdx,
                   wpc, witem, wg, supPc, results, resClosed, recvCount, invoked,
                   returned, delivered>>
    /\ UNCHANGED <<limiterVars, cpc, extVars>>

\* the range over urls is exhausted: the deferred close(urlChan)
Seed_Finish ==
    /\ seedPc = "loop"
    /\ seedIdx = Len(urls)
    /\ seedPc' = "done"
    /\ urlClosed' = urlClosed + 1
    /\ UNCHANGED <<maxWorkers, urls, called, ctxDone, urlChan, seedIdx, wpc, witem,
                   wg, supPc, results, resClosed, recvCount, invoked, returned,
                   delivered>>
    /\ UNCHANGED <<limiterVars, cpc, extVars>>

\* A token leaves limitCh: the bookkeeping of every receive from the channel.
TakeToken ==
    /\ limitCh > 0
    /\ limitCh' = limitCh - 1
    /\ acquired' = acquired + 1
    /\ acqAge' = Stamp(acqAge)
    /\ UNCHANGED <<timeSpan, intervals, clock, rlCtxDone, rlPc, tickerOn, tickPending,
                   phase, putAge, issued>>

\* Mutant of W_Recv: the item is read but stays in the queue.
W_Recv_NoDequeue(w) ==
    /\ wpc[w] = "recv"
    /\ urlChan # << >>
    /\ witem' = [witem EXCEPT ![w] = [url |-> Head(urlChan), err |-> FALSE]]
    /\ recvCount' = [recvCount EXCEPT ![Head(urlChan)] = @ + 1]
    /\ wpc' = [wpc EXCEPT ![w] = "token"]
    /\ UNCHANGED <<maxWorkers, urls, called, ctxDone, urlChan, urlClosed, seedIdx,
                   seedPc, wg, supPc, results, resClosed, invoked, returned, delivered>>
    /\ UNCHANGED <<limiterVars, cpc, extVars>>

\* for url := range urlChan: the next item is received
W_Recv(w) ==
    /\ wpc[w] = "recv"
    /\ urlChan # << >>
    /\ urlChan' = Tail(urlChan)
    /\ witem' = [witem EXCEPT ![w] = [url |-> Head(urlChan), err |-> FALSE]]
    /\ recvCount' = [recvCount EXCEPT ![Head(urlChan)] = @ + 1]
    /\ wpc' = [wpc EXCEPT ![w] = "token"]
    /\ UNCHANGED <<maxWorkers, urls, called, ctxDone, urlClosed, seedIdx, seedPc,
                   wg, supPc, results, resClosed, invoked, returned, delivered>>
    /\ UNCHANGED <<limiterVars, cpc, extVars>>

\* Mutant of W_QueueClosed: the worker returns without wg.Done().
W_QueueClosed_NoDone(w) ==
    /\ wpc[w] = "recv"
    /\ urlChan = << >>
    /\ urlClosed > 0
    /\ wpc' = [wpc EXCEPT ![w] = "done"]
    /\ UNCHANGED <<maxWorkers, urls, called, ctxDone, urlChan, urlClosed, seedIdx,
                   seedPc, witem, wg, supPc, results, resClosed, recvCount, invoked,
                   returned, delivered>>
    /\ UNCHANGED <<limiterVars, cpc, extVars>>

\* the range ends on the closed and drained urlChan: the deferred wg.Done()
W_QueueClosed(w) ==
    /\ wpc[w] = "recv"
    /\ urlChan = << >>
    /\ urlClosed > 0
    /\ wpc' = [wpc EXCEPT ![w] = "done"]
    /\ wg' = wg - 1
    /\ UNCHANGED <<maxWorkers, urls, called, ctxDone, urlChan, urlClosed, seedIdx,
                   seedPc, witem, supPc, results, resClosed, recvCount, invoked,
                   returned, delivered>>
    /\ UNCHANGED <<limiterVars, cpc, extVars>>

\* Mutant of W_Token: the worker calls scrapeFunc without receiving from LimitCh.
W_Token_NoToken(w) ==
    /\ wpc[w] = "token"
    /\ invoked' = [invoked EXCEPT ![witem[w].url] = @ + 1]
    /\ wpc' = [wpc EXCEPT ![w] = "scrape"]
    /\ UNCHANGED <<maxWorkers, urls, called, ctxDone, urlChan, urlClosed, seedIdx,
                   seedPc, witem, wg, supPc, results, resClosed, recvCount,
                   returned, delivered, cpc, extVars>>
    /\ UNCHANGED limiterVars

\* case <-s.rlm.LimitCh(ctx): and the call s.scrapeFunc(ctx, url) that follows
W_Token(w) ==
    /\ wpc[w] = "token"
    /\ TakeToken
    /\ invoked' = [invoked EXCEPT ![witem[w].url] = @ + 1]
    /\ wpc' = [wpc EXCEPT ![w] = "scrape"]
    /\ UNCHANGED <<maxWorkers, urls, called, ctxDone, urlChan, urlClosed, seedIdx,
                   seedPc, witem, wg, supPc, results, resClosed, recvCount,
                   returned, delivered, cpc, extVars>>

\* Mutant of W_TokenCtxDone: the worker reports the item it drops, as a Result
\* with an error, before it returns.
W_TokenCtxDone_Report(w) ==
    /\ wpc[w] = "token"
    /\ ctxDone
    /\ results' = Append(results, [url |-> witem[w].url, err |-> TRUE])
    /\ delivered' = [delivered EXCEPT ![witem[w].url] = Append(@, TRUE)]
    /\ wpc' = [wpc EXCEPT ![w] = "done"]
    /\ witem' = [witem EXCEPT ![w] = NoResult]
    /\ wg' = wg - 1
    /\ UNCHANGED <<maxWorkers, urls, called, ctxDone, urlChan, urlClosed, seedIdx,
                   seedPc, supPc, resClosed, recvCount, invoked, returned>>
    /\ UNCHANGED <<limiterVars, cpc, extVars>>

\* Mutant of W_TokenCtxDone: the worker also returns on the limiter's scope.
W_TokenCtxDone_AnyScope(w) ==
    /\ wpc[w] = "token"
    /\ ctxDone \/ rlCtxDone
    /\ wpc' = [wpc EXCEPT ![w] = "done"]
    /\ witem' = [witem EXCEPT ![w] = NoResult]
    /\ wg' = wg - 1
    /\ UNCHANGED <<maxWorkers, urls, called, ctxDone, urlChan, urlClosed, seedIdx,
                   seedPc, supPc, results, resClosed, recvCount, invoked, returned,
                   delivered>>
    /\ UNCHANGED <<limiterVars, cpc, extVars>>

\* case <-ctx.Done(): return (outer select), and the deferred wg.Done()
W_TokenCtxDone(w) ==
    /\ wpc[w] = "token"
    /\ ctxDone
    /\ wpc' = [wpc EXCEPT ![w] = "done"]
    /\ witem' = [witem EXCEPT ![w] = NoResult]
    /\ wg' = wg - 1
    /\ UNCHANGED <<maxWorkers, urls, called, ctxDone, urlChan, urlClosed, seedIdx,
                   seedPc, supPc, results, resClosed, recvCount, invoked, returned,
                   delivered>>
    /\ UNCHANGED <<limiterVars, cpc, extVars>>

\* Mutant of W_ScrapeReturn: a worker whose call failed returns (wg.Done())
\* instead of sending the Result.
W_ScrapeReturn_Abort(w, e) ==
    /\ wpc[w] = "scrape"
    /\ witem' = [witem EXCEPT ![w].err = e]
    /\ returned' = [returned EXCEPT ![witem[w].url] = Append(@, e)]
    /\ wpc' = [wpc EXCEPT ![w] = IF e THEN "done" ELSE "deliver"]
    /\ wg' = IF e THEN wg - 1 ELSE wg
    /\ UNCHANGED <<maxWorkers, urls, called, ctxDone, urlChan, urlClosed, seedIdx,
                   seedPc, supPc, results, resClosed, recvCount, invoked,
                   delivered>>
    /\ UNCHANGED <<limiterVars, cpc, extVars>>

\* s.scrapeFunc(ctx, url) returns its Result, with a nil or a non-nil Error
W_ScrapeReturn(w, e) ==
    /\ wpc[w] = "scrape"
    /\ witem' = [witem EXCEPT ![w].err = e]
    /\ returned' = [returned EXCEPT ![witem[w].url] = Append(@, e)]
    /\ wpc' = [wpc EXCEPT ![w] = "deliver"]
    /\ UNCHANGED <<maxWorkers, urls, called, ctxDone, urlChan, urlClosed, seedIdx,
                   seedPc, wg, supPc, results, resClosed, recvCount, invoked,
                   delivered>>
    /\ UNCHANGED <<limiterVars, cpc, extVars>>

\* Mutant of W_Deliver: the results channel has one slot less than len(urls).
W_Deliver_OneLess(w) ==
    /\ wpc[w] = "deliver"
    /\ Len(results) < Len(urls) - 1
    /\ results' = Append(results, witem[w])
    /\ delivered' = [delivered EXCEPT ![witem[w].url] = Append(@, witem[w].err)]
    /\ witem' = [witem EXCEPT ![w] = NoResult]
    /\ wpc' = [wpc EXCEPT ![w] = "recv"]
    /\ UNCHANGED <<maxWorkers, urls, called, ctxDone, urlChan, urlClosed, seedIdx,
                   seedPc, wg, supPc, resClosed, recvCount, invoked, returned>>
    /\ UNCHANGED <<limiterVars, cpc, extVars>>

\* case results <- result: (blocks while the buffer of len(urls) is full)
W_Deliver(w) ==
    /\ wpc[w] = "deliver"
    /\ Len(results) < Len(urls)
    /\ results' = Append(results, witem[w])
    /\ delivered' = [delivered EXCEPT ![witem[w].url] = Append(@, witem[w].err)]
    /\ witem' = [witem EXCEPT ![w] = NoResult]
    /\ wpc' = [wpc EXCEPT ![w] = "recv"]
    /\ UNCHANGED <<maxWorkers, urls, called, ctxDone, urlChan, urlClosed, seedIdx,
                   seedPc, wg, supPc, resClosed, recvCount, invoked, returned>>
    /\ UNCHANGED <<limiterVars, cpc, extVars>>

\* case <-ctx.Done(): return (inner select), and the deferred wg.Done()
W_DeliverCtxDone(w) ==
    /\ wpc[w] = "deliver"
    /\ ctxDone
    /\ wpc' = [wpc EXCEPT ![w] = "done"]
    /\ witem' = [witem EXCEPT ![w] = NoResult]
    /\ wg' = wg - 1
    /\ UNCHANGED <<maxWorkers, urls, called, ctxDone, urlChan, urlClosed, seedIdx,
                   seedPc, supPc, results, resClosed, recvCount, invoked, returned,
                   delivered>>
    /\ UNCHANGED <<limiterVars, cpc, extVars>>

\* Mutant of Sup_Wait: the wait returns while one worker is still running.
Sup_Wait_Early ==
    /\ supPc = "wait"
    /\ wg <= 1
    /\ supPc' = "close"
    /\ UNCHANGED <<maxWorkers, urls, called, ctxDone, urlChan, urlClosed, seedIdx,
                   seedPc, wpc, witem, wg, results, resClosed, recvCount, invoked,
                   returned, delivered>>
    /\ UNCHANGED <<limiterVars, cpc, extVars>>

\* Mutant of Sup_Wait: the supervisor calls s.rlm.Stop() before close(results).
Sup_Wait_StopFirst ==
    /\ supPc = "wait"
    /\ wg = 0
    /\ supPc' = "stop"
    /\ UNCHANGED <<maxWorkers, urls, called, ctxDone, urlChan, urlClosed, seedIdx,
                   seedPc, wpc, witem, wg, results, resClosed, recvCount, invoked,
                   returned, delivered>>
    /\ UNCHANGED <<limiterVars, cpc, extVars>>

\* wg.Wait() returns once the counter is zero
Sup_Wait ==
    /\ supPc = "wait"
    /\ wg = 0
    /\ supPc' = "close"
    /\ UNCHANGED <<maxWorkers, urls, called, ctxDone, urlChan, urlClosed, seedIdx,
                   seedPc, wpc, witem, wg, results, resClosed, recvCount, invoked,
                   returned, delivered>>
    /\ UNCHANGED <<limiterVars, cpc, extVars>>

\* close(results); the supervisor then enters s.rlm.Stop(), whose send on stopCh
\* completes in RL_Stop
Sup_Close ==
    /\ supPc = "close"
    /\ resClosed' = resClosed + 1
    /\ supPc' = "stop"
    /\ UNCHANGED <<maxWorkers, urls, called, ctxDone, urlChan, urlClosed, seedIdx,
                   seedPc, wpc, witem, wg, results, recvCount, invoked, returned,
                   delivered>>
    /\ UNCHANGED <<limiterVars, cpc, extVars>>

\* the caller's for res := range resultsCh receives a Result
Caller_Recv ==
    /\ results # << >>
    /\ results' = Tail(results)
    /\ UNCHANGED <<maxWorkers, urls, called, ctxDone, urlChan, urlClosed, seedIdx,
                   seedPc, wpc, witem, wg, supPc, resClosed, recvCount, invoked,
                   returned, delivered>>
    /\ UNCHANGED <<limiterVars, cpc, extVars>>

\* The scope shared by SetRateLimit and ScrapeURLs is cancelled.
Cancel ==
    /\ ~ctxDone
    /\ ctxDone' = TRUE
    /\ rlCtxDone' = TRUE
    /\ UNCHANGED <<timeSpan, intervals, clock, limitCh, rlPc, tickerOn, tickPending, phase,
                   putAge, acqAge, issued, acquired>>
    /\ UNCHANGED <<maxWorkers, urls, called, urlChan, urlClosed, seedIdx, seedPc,
                   wpc, witem, wg, supPc, results, resClosed, recvCount, invoked,
                   returned, delivered, cpc, extVars>>

----------------------------------------------------------------------------
\* Goroutines that call RateLimiter.Wait(ctx) on the limiter.

\* A client calls rl.Wait(ctx) and blocks in its select (clients stop calling
\* once MaxAcquired tokens have been acquired).
Wait_Call(c) ==
    /\ cpc[c] \in {"idle", "true", "false"}
    /\ acquired < MaxAcquired
    /\ cpc' = [cpc EXCEPT ![c] = "wait"]
    /\ UNCHANGED <<limiterVars, scraperVars, extVars>>

\* Mutant of Wait_Token: the receive leaves the token in the channel.
Wait_Token_Peek(c) ==
    /\ cpc[c] = "wait"
    /\ limitCh > 0
    /\ cpc' = [cpc EXCEPT ![c] = "true"]
    /\ cgot' = [cgot EXCEPT ![c] = @ + 1]
    /\ UNCHANGED <<limiterVars, scraperVars, rlm, setCalled, ret, panicked, now>>
    /\ UNCHANGED runVars

\* case <-rl.limitCh: return true
Wait_Token(c) ==
    /\ cpc[c] = "wait"
    /\ TakeToken
    /\ cpc' = [cpc EXCEPT ![c] = "true"]
    /\ cgot' = [cgot EXCEPT ![c] = @ + 1]
    /\ UNCHANGED <<scraperVars, rlm, setCalled, ret, panicked, now>>
    /\ UNCHANGED runVars

\* Mutant of Wait_CtxDone: Wait gives up when no token is buffered (a default
\* branch in the select).
Wait_CtxDone_NonBlocking(c) ==
    /\ cpc[c] = "wait"
    /\ ctxDone \/ limitCh = 0
    /\ cpc' = [cpc EXCEPT ![c] = "false"]
    /\ UNCHANGED <<limiterVars, scraperVars, extVars>>

\* case <-ctx.Done(): return false
Wait_CtxDone(c) ==
    /\ cpc[c] = "wait"
    /\ ctxDone
    /\ cpc' = [cpc EXCEPT ![c] = "false"]
    /\ UNCHANGED <<limiterVars, scraperVars, extVars>>

\* The context given to Wait is cancelled, the limiter's is another one.
CancelCtx ==
    /\ ~ctxDone
    /\ ctxDone' = TRUE
    /\ UNCHANGED <<maxWorkers, urls, called, urlChan, urlClosed, seedIdx, seedPc,
                   wpc, witem, wg, supPc, results, resClosed, recvCount, invoked,
                   returned, delivered, cpc, extVars>>
    /\ UNCHANGED limiterVars

\* The context given to NewRateLimiter is cancelled, the callers' is another one.
CancelLimiterCtx ==
    /\ ~rlCtxDone
    /\ rlCtxDone' = TRUE
    /\ UNCHANGED <<timeSpan, intervals, clock, limitCh, rlPc, tickerOn, tickPending, phase,
                   putAge, acqAge, issued, acquired>>
    /\ UNCHANGED <<scraperVars, cpc, extVars>>

\* A client receives from the channel LimitCh(ctx) returns, which is limitCh
\* itself, in a select of its own (clients stop receiving once MaxAcquired
\* tokens have been acquired).
LimitCh_Recv(c) ==
    /\ cpc[c] \in {"idle", "true", "false"}
    /\ acquired < MaxAcquired
    /\ TakeToken
    /\ cgot' = [cgot EXCEPT ![c] = @ + 1]
    /\ UNCHANGED <<scraperVars, cpc, rlm, setCalled, ret, panicked, now>>
    /\ UNCHANGED runVars

\* A client calls rl.Stop() and is in its send rl.stopCh <- struct{}{}.
Stop_Call(c) ==
    /\ cpc[c] \in {"idle", "true", "false"}
    /\ cpc' = [cpc EXCEPT ![c] = "stop"]
    /\ UNCHANGED <<limiterVars, scraperVars, extVars>>

\* Mutant of RL_StopBy: the goroutine empties limitCh before it returns.
RL_StopBy_Drain(c) ==
    /\ rlPc = "select"
    /\ cpc[c] = "stop"
    /\ cpc' = [cpc EXCEPT ![c] = "stopped"]
    /\ rlPc' = "done"
    /\ tickerOn' = FALSE
    /\ limitCh' = 0
    /\ UNCHANGED <<timeSpan, intervals, clock, rlCtxDone, tickPending,
                   phase, putAge, acqAge, issued, acquired>>
    /\ UNCHANGED <<scraperVars, extVars>>

\* case <-stopCh: return, paired with the send of client c, whose Stop() returns.
RL_StopBy(c) ==
    /\ rlPc = "select"
    /\ cpc[c] = "stop"
    /\ cpc' = [cpc EXCEPT ![c] = "stopped"]
    /\ rlPc' = "done"
    /\ tickerOn' = FALSE
    /\ UNCHANGED <<timeSpan, intervals, clock, rlCtxDone, limitCh, tickPending,
                   phase, putAge, acqAge, issued, acquired>>
    /\ UNCHANGED <<scraperVars, extVars>>

----------------------------------------------------------------------------
\* RateLimitedScraper.SetRateLimit and the calls that go wrong.

\* s.rlm = &NewRateLimiter(ctx, ts, iv).  make(chan struct{}, iv) panics on a
\* negative iv; otherwise the goroutine is started and the limiter is stored.
\* Neither function has an error result.
SetRateLimit(ts, iv) ==
    /\ rlm = "nil"
    /\ ~setCalled
    /\ setCalled' = TRUE
    /\ timeSpan' = ts
    /\ intervals' = iv
    /\ IF iv < 0
       THEN panicked' = TRUE /\ UNCHANGED <<rlm, rlPc>>
       ELSE rlm' = "set" /\ rlPc' = "start" /\ UNCHANGED panicked
    /\ UNCHANGED <<clock, rlCtxDone, limitCh, tickerOn, tickPending, phase, putAge,
                   acqAge, issued, acquired>>
    /\ UNCHANGED <<scraperVars, cpc, cgot, ret, now>>
    /\ UNCHANGED runVars

\* timeSpan / time.Duration(intervals) with intervals = 0: the goroutine panics
\* with an integer division by zero.
RL_StartPanic ==
    /\ rlPc = "start"
    /\ intervals = 0
    /\ rlPc' = "panic"
    /\ panicked' = TRUE
    /\ UNCHANGED <<timeSpan, intervals, clock, rlCtxDone, limitCh, tickerOn,
                   tickPending, phase, putAge, acqAge, issued, acquired>>
    /\ UNCHANGED <<scraperVars, cpc, cgot, rlm, setCalled, ret, now>>
    /\ UNCHANGED runVars

\* Mutant of ScrapeURLs_NoLimiter: the goroutines are started before the check.
ScrapeURLs_NoLimiter_Late(n) ==
    /\ ~called
    /\ rlm = "nil"
    /\ called' = TRUE
    /\ ret' = "error"
    /\ urls' = [k \in 1..n |-> k]
    /\ seedPc' = "loop"
    /\ wpc' = [w \in Workers |-> IF w <= maxWorkers THEN "recv" ELSE "none"]
    /\ wg' = Cardinality({w \in Workers : w <= maxWorkers})
    /\ supPc' = "wait"
    /\ UNCHANGED <<maxWorkers, ctxDone, urlChan, urlClosed, seedIdx, witem, results,
                   resClosed, recvCount, invoked, returned, delivered>>
    /\ UNCHANGED <<limiterVars, cpc, cgot, rlm, setCalled, panicked, now>>
    /\ UNCHANGED runVars

\* ScrapeURLs(ctx, urls) with s.rlm == nil: return nil, fmt.Errorf(...), before
\* any channel is made or goroutine started.
ScrapeURLs_NoLimiter(n) ==
    /\ ~called
    /\ rlm = "nil"
    /\ called' = TRUE
    /\ ret' = "error"
    /\ UNCHANGED <<maxWorkers, urls, ctxDone, urlChan, urlClosed, seedIdx, seedPc,
                   wpc, witem, wg, supPc, results, resClosed, recvCount, invoked,
                   returned, delivered>>
    /\ UNCHANGED <<limiterVars, cpc, cgot, rlm, setCalled, panicked, now>>
    /\ UNCHANGED runVars

----------------------------------------------------------------------------
\* Specifications.

\* The state NewRateLimiter(ctx, timeSpan, intervals) returns in: empty buffers,
\* the goroutine started but not yet run.
InitLimiter ==
    /\ intervals \in 1..MaxIntervals
    /\ timeSpan \in {intervals * p : p \in 1..MaxPeriod}
    /\ rlCtxDone = FALSE
    /\ limitCh = 0
    /\ rlPc = "start"
    /\ tickerOn = FALSE
    /\ tickPending = FALSE
    /\ phase = 0
    /\ putAge = << >>
    /\ acqAge = << >>
    /\ issued = 0
    /\ acquired = 0

\* No ScrapeURLs call has been made.
InitScraper ==
    /\ urls = << >>
    /\ called = FALSE
    /\ ctxDone = FALSE
    /\ urlChan = << >>
    /\ urlClosed = 0
    /\ seedIdx = 0
    /\ seedPc = "none"
    /\ wpc = [w \in Workers |-> "none"]
    /\ witem = [w \in Workers |-> NoResult]
    /\ wg = 0
    /\ supPc = "none"
    /\ results = << >>
    /\ resClosed = 0
    /\ recvCount = [i \in Items |-> 0]
    /\ invoked = [i \in Items |-> 0]
    /\ returned = [i \in Items |-> << >>]
    /\ delivered = [i \in Items |-> << >>]

\* SetRateLimit has stored the limiter in s.rlm; no client has received a token,
\* ScrapeURLs has not returned, nothing has panicked.
InitSet ==
    /\ cgot = [c \in Clients |-> 0]
    /\ rlm = "set"
    /\ setCalled = TRUE
    /\ ret = "none"
    /\ panicked = FALSE
    /\ now = 0
    /\ again = FALSE
    /\ left = 0
    /\ prev = NoPrev

\* NewScraper(rps, maxWorkers) followed by SetRateLimit(ctx, timeSpan, intervals).
\* No clock observes the run, so one timeSpan stands for all.
Init ==
    /\ InitLimiter
    /\ timeSpan = intervals * MaxPeriod
    /\ clock = FALSE
    /\ InitScraper
    /\ maxWorkers \in 1..MaxWorkers
    /\ cpc = [c \in Clients |-> "none"]
    /\ InitSet

Limiter == RL_Start \/ RL_Tick \/ RL_Send \/ RL_CtxDone

Next ==
    \/ Tick
    \/ Limiter
    \/ RL_Stop
    \/ \E n \in 0..MaxItems : ScrapeURLs(n)
    \/ Seed_Send
    \/ Seed_CtxDone
    \/ Seed_Finish
    \/ \E w \in Workers : W_Recv(w)
    \/ \E w \in Workers : W_QueueClosed(w)
    \/ \E w \in Workers : W_Token(w)
    \/ \E w \in Workers : W_TokenCtxDone(w)
    \/ \E w \in Workers, e \in BOOLEAN : W_ScrapeReturn(w, e)
    \/ \E w \in Workers : W_Deliver(w)
    \/ \E w \in Workers : W_DeliverCtxDone(w)
    \/ Sup_Wait
    \/ Sup_Close
    \/ Caller_Recv
    \/ Cancel

\* One scraper run under one scope shared by the limiter and ScrapeURLs.
Spec == Init /\ [][Next]_vars

\* The goroutines of a run, each with all its steps.
Seeder == Seed_Send \/ Seed_CtxDone \/ Seed_Finish

Worker(w) ==
    \/ W_Recv(w)
    \/ W_QueueClosed(w)
    \/ W_Token(w)
    \/ W_TokenCtxDone(w)
    \/ \E e \in BOOLEAN : W_ScrapeReturn(w, e)
    \/ W_Deliver(w)
    \/ W_DeliverCtxDone(w)

Supervisor == Sup_Wait \/ Sup_Close

\* Spec with the scheduler's fairness: time passes, and a goroutine that can take
\* a step eventually takes one (with the work function returning).  Nothing
\* obliges the caller to call ScrapeURLs, to read the stream or to cancel.
FairSpec ==
    /\ Spec
    /\ WF_vars(Tick)
    /\ WF_vars(Limiter \/ RL_Stop)
    /\ WF_vars(Seeder)
    /\ \A w \in Workers : WF_vars(Worker(w))
    /\ WF_vars(Supervisor)

\* The limiter's goroutine has a step it can take now.
LimiterReady ==
    \/ rlPc = "start"
    \/ rlPc = "select" /\ (tickPending \/ rlCtxDone \/ supPc = "stop")
    \/ rlPc = "select" /\ \E c \in Clients : cpc[c] = "stop"
    \/ rlPc = "send" /\ limitCh < intervals

\* Time passes only when the limiter's goroutine is blocked: the scheduler never
\* delays it, so a send on limitCh is late only because the buffer was full.
AdvancePrompt == ~LimiterReady /\ Advance

\* One scraper run that no scope cancels, observed with a clock, the limiter's
\* goroutine running without scheduling delay.  The caller and the workers take
\* their steps at any time.
InitTimed ==
    /\ InitLimiter
    /\ clock = TRUE
    /\ InitScraper
    /\ maxWorkers \in 1..MaxWorkers
    /\ cpc = [c \in Clients |-> "none"]
    /\ InitSet

NextTimed ==
    \/ AdvancePrompt
    \/ RL_Start
    \/ RL_Tick
    \/ RL_Send
    \/ RL_Stop
    \/ \E n \in 0..MaxItems : ScrapeURLs(n)
    \/ Seed_Send
    \/ Seed_Finish
    \/ \E w \in Workers : W_Recv(w)
    \/ \E w \in Workers : W_QueueClosed(w)
    \/ \E w \in Workers : W_Token(w)
    \/ \E w \in Workers : W_ScrapeReturn(w, FALSE)
    \/ \E w \in Workers : W_Deliver(w)
    \/ Sup_Wait
    \/ Sup_Close

SpecTimed == InitTimed /\ [][NextTimed]_vars

\* A limiter used through Wait by client goroutines.
InitWait ==
    /\ InitLimiter
    /\ timeSpan = intervals * MaxPeriod
    /\ clock = FALSE
    /\ InitScraper
    /\ maxWorkers = 1
    /\ cpc = [c \in Clients |-> "idle"]
    /\ InitSet

NextWait ==
    \/ Tick
    \/ Limiter
    \/ \E c \in Clients : Wait_Call(c)
    \/ \E c \in Clients : Wait_Token(c)
    \/ \E c \in Clients : Wait_CtxDone(c)
    \/ Cancel
    \/ CancelCtx
    \/ CancelLimiterCtx

SpecWait == InitWait /\ [][NextWait]_vars

\* A limiter used by client goroutines in every way its API offers: Wait, a
\* receive from LimitCh, Stop.  The limiter's ctx and the callers' are two.
NextUse ==
    \/ Tick
    \/ Limiter
    \/ \E c \in Clients : Wait_Call(c)
    \/ \E c \in Clients : Wait_Token(c)
    \/ \E c \in Clients : Wait_CtxDone(c)
    \/ \E c \in Clients : LimitCh_Recv(c)
    \/ \E c \in Clients : Stop_Call(c)
    \/ \E c \in Clients : RL_StopBy(c)
    \/ CancelCtx
    \/ CancelLimiterCtx

SpecUse == InitWait /\ [][NextUse]_vars

\* A limiter with one consumer that receives from LimitCh as soon as a token is
\* there, from the creation on, observed with a clock.  timeSpan need not be a
\* multiple of intervals.
InitDrain ==
    /\ intervals \in 1..MaxIntervals
    /\ timeSpan \in intervals..(MaxIntervals * MaxPeriod)
    /\ clock = TRUE
    /\ rlCtxDone = FALSE
    /\ limitCh = 0
    /\ rlPc = "start"
    /\ tickerOn = FALSE
    /\ tickPending = FALSE
    /\ phase = 0
    /\ putAge = << >>
    /\ acqAge = << >>
    /\ issued = 0
    /\ acquired = 0
    /\ InitScraper
    /\ maxWorkers = 1
    /\ cpc = [c \in Clients |-> "idle"]
    /\ InitSet

\* Neither the limiter's goroutine nor the consumer has a step to take: the
\* goroutine is blocked and limitCh is empty.
DrainQuiet == ~LimiterReady /\ limitCh = 0

\* Time passes only when both are blocked (or the consumer has stopped after
\* MaxAcquired tokens).
AdvanceDrain == ~LimiterReady /\ (limitCh = 0 \/ acquired = MaxAcquired) /\ Advance

NextDrain ==
    \/ AdvanceDrain
    \/ RL_Start
    \/ RL_Tick
    \/ RL_Send
    \/ LimitCh_Recv(1)

SpecDrain == InitDrain /\ [][NextDrain]_vars

\* NewScraper(rps, maxWorkers) alone: s.rlm is nil, no limiter exists.
InitSetup ==
    /\ intervals = 0
    /\ timeSpan = 0
    /\ clock = FALSE
    /\ rlCtxDone = FALSE
    /\ limitCh = 0
    /\ rlPc = "none"
    /\ tickerOn = FALSE
    /\ tickPending = FALSE
    /\ phase = 0
    /\ putAge = << >>
    /\ acqAge = << >>
    /\ issued = 0
    /\ acquired = 0
    /\ InitScraper
    /\ maxWorkers \in 1..MaxWorkers
    /\ cpc = [c \in Clients |-> "none"]
    /\ cgot = [c \in Clients |-> 0]
    /\ rlm = "nil"
    /\ setCalled = FALSE
    /\ ret = "none"
    /\ panicked = FALSE
    /\ now = 0
    /\ again = FALSE
    /\ left = 0
    /\ prev = NoPrev

\* A scraper from its construction on: SetRateLimit with any intervals, then a
\* run, or ScrapeURLs straight away.  A panic ends the process.
NextSetup ==
    /\ ~panicked
    /\ \/ \E iv \in -1..MaxIntervals :
              SetRateLimit(MaxPeriod * (IF iv > 0 THEN iv ELSE 1), iv)
       \/ RL_StartPanic
       \/ \E n \in 0..MaxItems : ScrapeURLs_NoLimiter(n)
       \/ Next

SpecSetup == InitSetup /\ [][NextSetup]_vars

----------------------------------------------------------------------------
\* Properties.

Submitted == 1..Len(urls)

\* Every submitted item has exactly one Result on the stream, nothing else has
\* one, and the stream is closed.
Complete ==
    /\ resClosed = 1
    /\ \A i \in Items : Len(delivered[i]) = IF i \in Submitted THEN 1 ELSE 0

\* C1: once ScrapeURLs has been called with N items (maxWorkers >= 1, limiter
\* running), then unless the scope is cancelled the run reaches a state where
\* exactly one Result per submitted item has been sent and the stream is closed.
C1_AllDelivered == called ~> (ctxDone \/ Complete)

C1_Witness == ~ctxDone /\ Len(urls) = 2 /\ Complete

\* C2: no item is received from the queue more than once, and scrapeFunc is
\* invoked at most once per item, cancelled or not.
C2_AtMostOnce == \A i \in Items : recvCount[i] <= 1 /\ invoked[i] <= 1

C2_Witness ==
    /\ ctxDone
    /\ \A w \in Workers : wpc[w] = "scrape"
    /\ \A i \in Items : recvCount[i] = 1 /\ invoked[i] = 1

WorkersDone == \A w \in Workers : wpc[w] \in {"none", "done"}

\* C3: the result stream is never closed twice, when it is closed every worker
\* has terminated, and every ScrapeURLs call leads to its stream being closed.
C3_ClosedOnce ==
    /\ [](resClosed <= 1 /\ (resClosed = 1 => WorkersDone))
    /\ (called ~> (resClosed = 1))

C3_Witness == resClosed = 1 /\ maxWorkers = 2 /\ WorkersDone /\ ctxDone

Running == {w \in Workers : wpc[w] = "scrape"}

\* C4: at most maxWorkers invocations of scrapeFunc are in progress.
C4_Parallelism == Cardinality(Running) <= maxWorkers

C4_Witness == maxWorkers = 1 /\ Len(urls) = 2 /\ Running # {} /\ urlChan # << >>

RECURSIVE SumOver(_, _)
SumOver(f, n) == IF n = 0 THEN 0 ELSE f[n] + SumOver(f, n - 1)

Invocations == SumOver(invoked, MaxItems)

\* C5: the invocations of scrapeFunc started are as many as the tokens the
\* workers have received from limitCh, and no more than the tokens issued.
C5_TokenPerInvocation == Invocations = acquired /\ acquired <= issued

C5_Witness == Invocations = 2 /\ issued > acquired

\* C6: fewer than timeSpan ago at most `intervals` tokens were acquired, that is,
\* no window of length timeSpan holds more than `intervals` acquisitions (each of
\* them the start of one scrapeFunc invocation).
C6_AcquireRate == Len(acqAge) <= intervals

\* C7: no window of length timeSpan holds more than `intervals` sends of the
\* limiter's goroutine on limitCh.
C7_IssueRate == Len(putAge) <= intervals

\* C8: two consecutive sends on limitCh are at least one period apart.
C8_Spacing == \A k \in 1..(Len(putAge) - 1) : putAge[k] - putAge[k + 1] >= Period

PendingSend == IF rlPc = "send" THEN 1 ELSE 0

\* C9: the tokens in limitCh plus the token of a pending send are at most
\* `intervals`.
C9_Unconsumed == limitCh + PendingSend <= intervals

\* C10: a Wait call returns true only in a step that removes exactly one token
\* from limitCh, returns false only with its ctx cancelled and then removes no
\* token, and does not return while limitCh is empty and ctx is not cancelled.
C10_Wait ==
    [][\A c \in Clients : cpc[c] = "wait" =>
        /\ cpc'[c] = "true" =>
              limitCh > 0 /\ limitCh' = limitCh - 1 /\ acquired' = acquired + 1
        /\ cpc'[c] = "false" => ctxDone /\ limitCh' = limitCh /\ acquired' = acquired
        /\ (limitCh = 0 /\ ~ctxDone) => cpc'[c] = "wait"]_vars

C10_Witness ==
    /\ \E c \in Clients : cpc[c] = "true"
    /\ \E c \in Clients : cpc[c] = "false"
    /\ acquired = 2
    /\ limitCh > 0

SumGot == SumOver(cgot, MaxClients)

\* C11: with clients in Wait and clients receiving from LimitCh at once, the
\* tokens the clients hold are exactly those that left limitCh: tokens issued =
\* tokens buffered + tokens obtained by the clients, each counted for the one
\* client that received it, and never more obtained than issued.
C11_ExactlyOne ==
    /\ SumGot = acquired
    /\ issued = limitCh + SumGot
    /\ SumGot <= issued

\* One client got its token from LimitCh (it never called Wait), another from
\* Wait, and a token is buffered.
C11_Witness ==
    /\ \E c \in Clients : cpc[c] = "idle" /\ cgot[c] >= 1
    /\ \E c \in Clients : cpc[c] = "true"
    /\ limitCh > 0

NothingStarted ==
    /\ seedPc = "none"
    /\ supPc = "none"
    /\ \A w \in Workers : wpc[w] = "none"
    /\ wg = 0

\* C12: when ScrapeURLs has returned an error because no limiter was set, no
\* seeding goroutine, worker or supervisor exists, no stream was made and
\* scrapeFunc has been invoked for no item, whatever happens afterwards.
C12_NoLimiter ==
    ret = "error" =>
        /\ NothingStarted
        /\ Invocations = 0
        /\ urlChan = << >> /\ results = << >> /\ urlClosed = 0 /\ resClosed = 0

\* The failed call, after which the limiter was set and has issued tokens.
C12_Witness == ret = "error" /\ rlm = "set" /\ limitCh > 0

\* C13: after SetRateLimit (NewRateLimiter) was called with intervals <= 0, no
\* limiter is stored, no goroutine of the limiter exists and nothing has
\* panicked: the call failed fast.
C13_FailFast ==
    (setCalled /\ intervals <= 0) => (rlm = "nil" /\ rlPc = "none" /\ ~panicked)


\* The limiter's goroutine has returned.
Stopped == rlPc = "done"

\* C14: a Stop() call on a limiter whose goroutine has returned (after an
\* earlier Stop() or the cancellation of its scope) does not block: the call
\* enters the send on stopCh only with the goroutine at its select to
\* receive it.
C14_StopOnStopped ==
    [][\A c \in Clients :
        (Stopped /\ cpc[c] # "stop" /\ cpc'[c] = "stop") => rlPc' = "select"]_vars

\* C15: when one of two Stop() calls that are in progress at once on a running
\* limiter returns, the other one has returned too or the goroutine is still
\* there to receive its send: no call is left without a receiver.
C15_ConcurrentStop ==
    [][\A c \in Clients : \A d \in Clients \ {c} :
        (cpc[c] = "stop" /\ cpc[d] = "stop" /\ cpc'[c] = "stopped")
            => (cpc'[d] = "stopped" \/ ~Stopped')]_vars

\* No other client than c has called Stop().
OnlyStop(c) == \A d \in Clients \ {c} : cpc[d] \notin {"stop", "stopped"}

\* C16: while a single Stop() is in progress on a running limiter whose scope
\* is not cancelled, the goroutine can take a step of its own or receive the
\* stop signal, whatever limitCh holds and without any client consuming: it is
\* never blocked on something only a consumer can release.
C16_StopReturns ==
    \A c \in Clients :
        (cpc[c] = "stop" /\ OnlyStop(c) /\ ~Stopped /\ ~rlCtxDone)
            => ENABLED (RL_Start \/ RL_Tick \/ RL_Send \/ RL_StopBy(c))

\* C17: once the ctx given to NewRateLimiter is cancelled, the goroutine has
\* returned or can take a step towards it without any client consuming,
\* whatever limitCh holds.
C17_CancelTerminates == (rlCtxDone /\ ~Stopped) => ENABLED Limiter

StopReturned == \E c \in Clients : cpc[c] = "stopped"

\* C18: once the limiter's ctx is cancelled or a Stop() has returned, no step
\* adds a token to limitCh (the buffer can only shrink), and a goroutine that has
\* returned stays so.
C18_NoTokenAfterStop ==
    [][/\ (rlCtxDone \/ StopReturned) => (issued' = issued /\ limitCh' <= limitCh)
       /\ Stopped => Stopped']_vars

DeliveredCount == SumOver([i \in Items |-> Len(delivered[i])], MaxItems)

\* C19: never more Results are sent than items were submitted, and once the
\* shared scope is cancelled in a run (every scrapeFunc call returning) the
\* stream is eventually closed.
C19_CancelCloses ==
    /\ [](DeliveredCount <= Len(urls))
    /\ ((called /\ ctxDone) ~> (resClosed = 1))

\* A run of two items that the cancellation cut short, its stream closed.
C19_Witness ==
    /\ ctxDone
    /\ resClosed = 1
    /\ Len(urls) = 2
    /\ DeliveredCount < Len(urls)
    /\ Invocations >= 1

AllTerminated == seedPc = "done" /\ WorkersDone /\ supPc = "done" /\ Stopped

\* C20: when the shared scope is cancelled after ScrapeURLs was called, the
\* seeding goroutine, every worker, the supervisor (its Stop() returning) and
\* the limiter's goroutine all eventually terminate.
C20_NoLeak == [](called /\ ~ctxDone => [](ctxDone => <>AllTerminated))

\* C21: in a run without cancellation, while the supervisor is in its Stop()
\* (the workers have all returned, so nobody receives from limitCh any more)
\* the limiter's goroutine can take a step or receive the stop signal: the
\* Stop() is never left waiting on a goroutine that nothing can release,
\* however long the scrapeFunc calls took.
C21_SupervisorStops ==
    (supPc = "stop" /\ ~ctxDone) =>
        WorkersDone /\ ENABLED (RL_Start \/ RL_Tick \/ RL_Send \/ RL_Stop)

\* C22: a ScrapeURLs call with no item returns a stream and no error; no worker
\* ever holds an item, waits for a token or takes one, scrapeFunc is not
\* invoked, no Result is sent, and the stream is eventually closed.
C22_Empty ==
    /\ []((called /\ urls = << >>) =>
            /\ ret = "stream"
            /\ acquired = 0 /\ Invocations = 0 /\ DeliveredCount = 0
            /\ \A w \in Workers : wpc[w] \in {"none", "recv", "done"})
    /\ ((called /\ urls = << >>) ~> (resClosed = 1 /\ results = << >>))

\* The empty run closed before the limiter issued any token.
C22_Witness ==
    called /\ urls = << >> /\ resClosed = 1 /\ issued = 0 /\ ~ctxDone /\ maxWorkers = 2

\* C23: whichever scrapeFunc calls return a Result with a non-nil Error, the
\* call has returned a stream and no error, and unless the scope is cancelled
\* the run reaches a closed stream with one Result per submitted item, each
\* carrying the Error (nil or not) its scrapeFunc call returned.
C23_FailuresDelivered ==
    /\ [](called => ret = "stream")
    /\ called ~> (ctxDone \/ (Complete /\ \A i \in Submitted :
                                 Len(returned[i]) = 1 /\ delivered[i] = returned[i]))

\* A complete run of two items, the first call failed, the second did not.
C23_Witness ==
    /\ ~ctxDone
    /\ Complete
    /\ Len(urls) = 2
    /\ returned[1] = <<TRUE>> /\ delivered[1] = <<TRUE>>
    /\ returned[2] = <<FALSE>> /\ delivered[2] = <<FALSE>>

\* a is an initial part of b
IsPrefix(a, b) == Len(a) <= Len(b) /\ \A k \in 1..Len(a) : a[k] = b[k]

\* C24: every Result sent on the stream is, unchanged, what one scrapeFunc
\* invocation on a submitted item returned; nothing is sent for an item that
\* was not submitted or whose invocation has not returned, cancelled or not.
C24_NoFabrication ==
    /\ \A i \in Items :
          /\ IsPrefix(delivered[i], returned[i])
          /\ Len(returned[i]) <= invoked[i]
          /\ i \notin Submitted => delivered[i] = << >>
    /\ \A k \in 1..Len(results) :
          /\ results[k].url \in Submitted
          /\ \E j \in 1..Len(delivered[results[k].url]) :
                delivered[results[k].url][j] = results[k].err

\* A cancelled and closed run: one item's Result is on the stream, the other
\* item was received by a worker and dropped without an invocation.
C24_Witness ==
    /\ ctxDone
    /\ resClosed = 1
    /\ \E i \in Items : recvCount[i] = 1 /\ invoked[i] = 0 /\ delivered[i] = << >>
    /\ \E i \in Items : delivered[i] # << >>
    /\ results # << >>

\* C25: when the stream is closed, every item has as many Results on it as
\* scrapeFunc invocations were started for it (one or none): no started
\* invocation is left without its Result.
C25_InvokedDelivered ==
    resClosed = 1 => \A i \in Items : Len(delivered[i]) = invoked[i]

\* C26: once the scope is cancelled no scrapeFunc invocation starts, whether or
\* not a token is buffered for a worker that waits for one.
C26_NoInvocationAfterCancel == [][ctxDone => invoked' = invoked]_vars

\* C27: with one consumer draining LimitCh from the creation on, the tokens
\* received never exceed the number of periods elapsed, and whenever goroutine
\* and consumer have caught up they equal it: k tokens once k periods have
\* elapsed; with timeSpan = intervals periods that is `intervals` tokens from
\* timeSpan on until one more period has elapsed.
C27_DrainCount ==
    now < Horizon =>
        /\ acquired <= now \div Period
        /\ DrainQuiet => (acquired = now \div Period /\ cgot[1] = acquired)
        /\ (DrainQuiet /\ timeSpan = intervals * Period
               /\ timeSpan <= now /\ now < timeSpan + Period) => acquired = intervals

\* timeSpan plus the largest slack below one period has elapsed and the
\* consumer holds `intervals` tokens.
C27_Witness ==
    /\ DrainQuiet
    /\ intervals = 2
    /\ timeSpan = intervals * Period
    /\ Period = 2
    /\ now = timeSpan + Period - 1
    /\ acquired = intervals

\* C28: counted from the limiter's creation, no more scrapeFunc invocations
\* have started than periods have elapsed, so a run over N items is not closed
\* before N periods have elapsed, for any maxWorkers and however short the
\* scrapeFunc calls are.
C28_LowerBound ==
    now < Horizon =>
        /\ Invocations <= now \div Period
        /\ (resClosed = 1) => now >= Len(urls) * Period

\* Two items, two workers: the stream closed exactly two periods after the
\* creation, no earlier.
C28_Witness ==
    /\ resClosed = 1
    /\ Len(urls) = 2
    /\ maxWorkers = 2
    /\ Period = 2
    /\ now = 2 * Period

\* C29: a client in Wait on a limiter that a returned Stop() has stopped, with
\* limitCh empty, can return: one of the cases of its select is ready.
C29_WaitOnStopped ==
    \A c \in Clients :
        (cpc[c] = "wait" /\ StopReturned /\ limitCh = 0)
            => ENABLED (Wait_Token(c) \/ Wait_CtxDone(c))

\* The seeded items that have left the queue.
Dequeued == seedIdx - Len(urlChan)

\* C30: the queue holds, in submitted order, the last of the first seedIdx
\* submitted items, the ones before them are exactly the items workers have
\* received, no item after the seeded prefix has been seen by a worker, and
\* the queue is closed once, when the seeding goroutine returns, completed or
\* cancelled.
C30_SeedingOrder ==
    /\ seedIdx <= Len(urls)
    /\ Dequeued >= 0
    /\ urlChan = SubSeq(urls, Dequeued + 1, seedIdx)
    /\ \A k \in 1..Len(urls) : recvCount[urls[k]] = IF k <= Dequeued THEN 1 ELSE 0
    /\ urlClosed <= 1
    /\ (urlClosed = 1) <=> (seedPc = "done")

\* Seeding was cancelled after the first of two items; a worker received that
\* one, the other never entered the queue, and the queue is closed.
C30_Witness ==
    /\ ctxDone
    /\ seedPc = "done"
    /\ Len(urls) = 2
    /\ seedIdx = 1
    /\ recvCount[1] = 1
    /\ urlClosed = 1
    /\ WorkersDone

\* C31: the step in which a Stop() returns leaves limitCh and the token counts
\* as they are, and on a limiter stopped that way a buffered token can still
\* be received, by a client in Wait as by a client receiving from LimitCh.
C31_StopKeepsTokens ==
    [][/\ \A c \in Clients : (cpc[c] = "stop" /\ cpc'[c] = "stopped") =>
              (limitCh' = limitCh /\ issued' = issued /\ acquired' = acquired)
       /\ \A c \in Clients :
              (StopReturned /\ limitCh > 0 /\ acquired < MaxAcquired) =>
                  /\ cpc[c] = "wait" => ENABLED Wait_Token(c)
                  /\ cpc[c] \in {"idle", "true", "false"} => ENABLED LimitCh_Recv(c)]_vars

\* A Stop() has returned with the buffer full, and a client is in Wait.
C31_Witness ==
    /\ StopReturned
    /\ Stopped
    /\ intervals = 2
    /\ limitCh = intervals
    /\ \E c \in Clients : cpc[c] = "wait"

\* C32: the supervisor is in or past its Stop() only with the stream closed,
\* and once every worker of a run has returned the stream gets closed, whether
\* or not Stop() ever returns.
C32_CloseBeforeStop ==
    /\ [](supPc \in {"stop", "done"} => resClosed = 1)
    /\ ((called /\ WorkersDone) ~> (resClosed = 1))

\* The stream is closed while the supervisor is in a Stop() that cannot return.
C32_Witness == resClosed = 1 /\ supPc = "stop" /\ Stopped

\* C33: a worker holding a Result can always send it, the results channel
\* having room for it whatever the caller has read, and a run that is not
\* cancelled gets every item's call returned, one Result per item sent and the
\* stream closed, the caller being free never to read.
C33_DeliveryNeverBlocks ==
    /\ [](\A w \in Workers : wpc[w] = "deliver" => ENABLED W_Deliver(w))
    /\ (called ~> (ctxDone \/ (Complete /\ \A i \in Submitted : Len(returned[i]) = 1)))

\* Two items done and the stream closed with both Results still in the channel.
C33_Witness ==
    /\ Complete
    /\ ~ctxDone
    /\ Len(urls) = 2
    /\ Len(results) = 2

\* C34: before one full period has elapsed since the limiter's creation the
\* buffer is empty, no token has been issued or acquired and no scrapeFunc
\* invocation has started.
C34_NothingBeforeFirstTick ==
    now < Period =>
        /\ limitCh = 0
        /\ issued = 0
        /\ acquired = 0
        /\ Invocations = 0

\* The first invocation has started exactly one period after the creation.
C34_Witness ==
    /\ Period = 2
    /\ now = Period
    /\ issued = 1
    /\ Invocations = 1

----------------------------------------------------------------------------
\* A scraper made with maxWorkers <= 0: NewScraper stores the value unchecked.

\* NewScraper(rps, maxWorkers) with maxWorkers <= 0, then SetRateLimit.
InitNoWorkers ==
    /\ InitLimiter
    /\ timeSpan = intervals * MaxPeriod
    /\ clock = FALSE
    /\ InitScraper
    /\ maxWorkers \in -1..0
    /\ cpc = [c \in Clients |-> "none"]
    /\ InitSet

\* The run's goroutines when the worker loop has started none.
NextNoWorkers ==
    \/ Tick
    \/ Limiter
    \/ RL_Stop
    \/ \E n \in 1..MaxItems : ScrapeURLs(n)
    \/ Seed_Send
    \/ Seed_CtxDone
    \/ Seed_Finish
    \/ Sup_Wait
    \/ Sup_Close
    \/ Cancel

SpecNoWorkers == InitNoWorkers /\ [][NextNoWorkers]_vars

\* SpecNoWorkers with the scheduler's fairness for the goroutines.
FairNoWorkers ==
    /\ SpecNoWorkers
    /\ WF_vars(Tick)
    /\ WF_vars(Limiter \/ RL_Stop)
    /\ WF_vars(Seeder)
    /\ WF_vars(Supervisor)

\* C35: with maxWorkers <= 0 and a limiter set, a ScrapeURLs call over N > 0
\* items returns the stream and no error, no worker exists, scrapeFunc is never
\* invoked, no Result is ever sent, and the stream gets closed, cancelled or not.
C35_NoWorkersEmptyStream ==
    /\ [](called =>
            /\ ret = "stream"
            /\ \A w \in Workers : wpc[w] = "none"
            /\ Invocations = 0
            /\ results = << >>
            /\ \A i \in Items : delivered[i] = << >>)
    /\ (called ~> (resClosed = 1))

\* Two items sit in the closed item queue, the stream is closed and empty, and
\* the scope was not cancelled.
C35_Witness ==
    /\ maxWorkers = -1
    /\ Len(urls) = 2
    /\ Len(urlChan) = 2
    /\ urlClosed = 1
    /\ resClosed = 1
    /\ results = << >>
    /\ ~ctxDone

----------------------------------------------------------------------------
\* A second ScrapeURLs call on the same scraper, with no SetRateLimit between.

\* Mutant of ScrapeURLs_Again: the call starts the limiter's goroutine anew.
ScrapeURLs_Again_Restart(n) ==
    /\ called
    /\ ~again
    /\ rlm = "set"
    /\ seedPc = "done"
    /\ supPc = "done"
    /\ again' = TRUE
    /\ left' = limitCh
    /\ ret' = "stream"
    /\ ctxDone' = FALSE
    /\ urls' = [k \in 1..n |-> k]
    /\ urlChan' = << >>
    /\ urlClosed' = 0
    /\ seedIdx' = 0
    /\ seedPc' = "loop"
    /\ wpc' = [w \in Workers |-> IF w <= maxWorkers THEN "recv" ELSE "none"]
    /\ witem' = [w \in Workers |-> NoResult]
    /\ wg' = Cardinality({w \in Workers : w <= maxWorkers})
    /\ supPc' = "wait"
    /\ results' = << >>
    /\ resClosed' = 0
    /\ recvCount' = [i \in Items |-> 0]
    /\ invoked' = [i \in Items |-> 0]
    /\ returned' = [i \in Items |-> << >>]
    /\ delivered' = [i \in Items |-> << >>]
    /\ rlPc' = "start"
    /\ UNCHANGED <<timeSpan, intervals, clock, rlCtxDone, limitCh, tickerOn,
                   tickPending, phase, putAge, acqAge, issued, acquired>>
    /\ UNCHANGED <<maxWorkers, called, cpc, cgot, rlm, setCalled, panicked, now, prev>>

\* ScrapeURLs(ctx, urls) called again, with a live scope, once every goroutine
\* of the first run has returned (the supervisor's Stop() included): the call
\* makes new channels and starts a new seeding goroutine, new workers and a new
\* supervisor on the limiter s.rlm still points to, whose goroutine has returned.
\* The per-item counts start again for the new run.
ScrapeURLs_Again(n) ==
    /\ called
    /\ ~again
    /\ rlm = "set"
    /\ seedPc = "done"
    /\ supPc = "done"
    /\ again' = TRUE
    /\ left' = limitCh
    /\ ret' = "stream"
    /\ ctxDone' = FALSE
    /\ urls' = [k \in 1..n |-> k]
    /\ urlChan' = << >>
    /\ urlClosed' = 0
    /\ seedIdx' = 0
    /\ seedPc' = "loop"
    /\ wpc' = [w \in Workers |-> IF w <= maxWorkers THEN "recv" ELSE "none"]
    /\ witem' = [w \in Workers |-> NoResult]
    /\ wg' = Cardinality({w \in Workers : w <= maxWorkers})
    /\ supPc' = "wait"
    /\ results' = << >>
    /\ resClosed' = 0
    /\ recvCount' = [i \in Items |-> 0]
    /\ invoked' = [i \in Items |-> 0]
    /\ returned' = [i \in Items |-> << >>]
    /\ delivered' = [i \in Items |-> << >>]
    /\ UNCHANGED limiterVars
    /\ UNCHANGED <<maxWorkers, called, cpc, cgot, rlm, setCalled, panicked, now, prev>>

NextAgain ==
    \/ Next
    \/ \E n \in 0..MaxItems : ScrapeURLs_Again(n)

\* One scraper run and then a second one, with no SetRateLimit between the two.
SpecAgain == Init /\ [][NextAgain]_vars

\* C36: in a second run made without a new SetRateLimit the limiter's goroutine
\* has returned, the invocations started are the tokens taken out of those the
\* buffer held at the call, so at most that many, and with more items than
\* that the stream is closed only if the run's scope has been cancelled.
C36_SingleUse ==
    again =>
        /\ rlPc = "done"
        /\ Invocations + limitCh = left
        /\ (Len(urls) > left /\ resClosed = 1) => ctxDone

\* A second run over two items found one token: one invocation was started, a
\* worker is waiting for a token with the other item, the stream is open.
C36_Witness ==
    /\ again
    /\ left = 1
    /\ Len(urls) = 2
    /\ Invocations = 1
    /\ limitCh = 0
    /\ ~ctxDone
    /\ resClosed = 0
    /\ \E w \in Workers : wpc[w] = "token"

----------------------------------------------------------------------------
\* SetRateLimit and ScrapeURLs given two different scopes.

NextScopes ==
    \/ Tick
    \/ Limiter
    \/ RL_Stop
    \/ \E n \in 0..MaxItems : ScrapeURLs(n)
    \/ Seed_Send
    \/ Seed_CtxDone
    \/ Seed_Finish
    \/ \E w \in Workers : W_Recv(w)
    \/ \E w \in Workers : W_QueueClosed(w)
    \/ \E w \in Workers : W_Token(w)
    \/ \E w \in Workers : W_TokenCtxDone(w)
    \/ \E w \in Workers, e \in BOOLEAN : W_ScrapeReturn(w, e)
    \/ \E w \in Workers : W_Deliver(w)
    \/ \E w \in Workers : W_DeliverCtxDone(w)
    \/ Sup_Wait
    \/ Sup_Close
    \/ Caller_Recv
    \/ CancelCtx
    \/ CancelLimiterCtx

\* One scraper run whose scope is not the limiter's: each is cancelled alone.
SpecScopes == Init /\ [][NextScopes]_vars

\* C37: with the limiter's scope cancelled, its goroutine returned on it and
\* the buffer empty, a worker waiting for a token with an item stays there in
\* every step that leaves the run's scope uncancelled, and while that scope is
\* uncancelled the stream is closed only with one Result sent per item.
C37_OtherScopeCancelled ==
    /\ [][(rlCtxDone /\ rlPc = "done" /\ limitCh = 0 /\ ~ctxDone') =>
              \A w \in Workers : wpc[w] = "token" =>
                  (wpc'[w] = "token" /\ witem'[w] = witem[w])]_vars
    /\ []((rlCtxDone /\ ~ctxDone /\ resClosed = 1) =>
              \A i \in Submitted : Len(delivered[i]) = 1)

\* The limiter's scope is cancelled and its goroutine gone, the run's scope is
\* live, the one token issued is used up and a worker waits with the next item.
C37_Witness ==
    /\ rlCtxDone
    /\ ~ctxDone
    /\ rlPc = "done"
    /\ supPc = "wait"
    /\ limitCh = 0
    /\ acquired = 1
    /\ resClosed = 0
    /\ \E w \in Workers : wpc[w] = "token"

----------------------------------------------------------------------------
\* SetRateLimit called a second time, before any ScrapeURLs call.  The limiter
\* it replaces lives on in prev: its goroutine, its ticker, its limitCh and the
\* scope it was made with.

\* Mutant of SetRateLimit_Again: the limiter replaced is stopped first.
SetRateLimit_Again_StopsPrev(iv) ==
    /\ rlm = "set"
    /\ setCalled
    /\ ~called
    /\ prev.pc = "none"
    /\ prev' = [pc |-> "done", intervals |-> intervals, limitCh |-> limitCh,
                 tickerOn |-> FALSE, tickPending |-> tickPending,
                 ctxDone |-> rlCtxDone]
    /\ timeSpan' = iv * MaxPeriod
    /\ intervals' = iv
    /\ rlCtxDone' = FALSE
    /\ ctxDone' = FALSE
    /\ limitCh' = 0
    /\ rlPc' = "start"
    /\ tickerOn' = FALSE
    /\ tickPending' = FALSE
    /\ phase' = 0
    /\ putAge' = << >>
    /\ acqAge' = << >>
    /\ issued' = 0
    /\ acquired' = 0
    /\ UNCHANGED <<clock, maxWorkers, urls, called, urlChan, urlClosed, seedIdx,
                   seedPc, wpc, witem, wg, supPc, results, resClosed, recvCount,
                   invoked, returned, delivered>>
    /\ UNCHANGED <<cpc, cgot, rlm, setCalled, ret, panicked, now, again, left>>

\* s.rlm = &NewRateLimiter(ctx, ts, iv) on a scraper whose s.rlm is set: the
\* field is overwritten, nothing is done to the limiter it pointed to.  The
\* call comes with a new scope, which is the one ScrapeURLs is given later.
SetRateLimit_Again(iv) ==
    /\ rlm = "set"
    /\ setCalled
    /\ ~called
    /\ prev.pc = "none"
    /\ prev' = [pc |-> rlPc, intervals |-> intervals, limitCh |-> limitCh,
                 tickerOn |-> tickerOn, tickPending |-> tickPending,
                 ctxDone |-> rlCtxDone]
    /\ timeSpan' = iv * MaxPeriod
    /\ intervals' = iv
    /\ rlCtxDone' = FALSE
    /\ ctxDone' = FALSE
    /\ limitCh' = 0
    /\ rlPc' = "start"
    /\ tickerOn' = FALSE
    /\ tickPending' = FALSE
    /\ phase' = 0
    /\ putAge' = << >>
    /\ acqAge' = << >>
    /\ issued' = 0
    /\ acquired' = 0
    /\ UNCHANGED <<clock, maxWorkers, urls, called, urlChan, urlClosed, seedIdx,
                   seedPc, wpc, witem, wg, supPc, results, resClosed, recvCount,
                   invoked, returned, delivered>>
    /\ UNCHANGED <<cpc, cgot, rlm, setCalled, ret, panicked, now, again, left>>

\* The replaced limiter's goroutine starts its ticker.
Prev_Start ==
    /\ prev.pc = "start"
    /\ prev' = [prev EXCEPT !.pc = "select", !.tickerOn = TRUE]
    /\ UNCHANGED <<limiterVars, scraperVars, cpc>>
    /\ UNCHANGED <<cgot, rlm, setCalled, ret, panicked, now, again, left>>

\* A period of the replaced limiter's ticker ends: ticker.C holds one tick.
Prev_TickFires ==
    /\ prev.tickerOn
    /\ ~prev.tickPending
    /\ prev' = [prev EXCEPT !.tickPending = TRUE]
    /\ UNCHANGED <<limiterVars, scraperVars, cpc>>
    /\ UNCHANGED <<cgot, rlm, setCalled, ret, panicked, now, again, left>>

\* case <-ticker.C: in the replaced limiter's goroutine
Prev_Tick ==
    /\ prev.pc = "select"
    /\ prev.tickPending
    /\ prev' = [prev EXCEPT !.pc = "send", !.tickPending = FALSE]
    /\ UNCHANGED <<limiterVars, scraperVars, cpc>>
    /\ UNCHANGED <<cgot, rlm, setCalled, ret, panicked, now, again, left>>

\* limitCh <- struct{}{} in the replaced limiter's goroutine
Prev_Send ==
    /\ prev.pc = "send"
    /\ prev.limitCh < prev.intervals
    /\ prev' = [prev EXCEPT !.pc = "select", !.limitCh = @ + 1]
    /\ UNCHANGED <<limiterVars, scraperVars, cpc>>
    /\ UNCHANGED <<cgot, rlm, setCalled, ret, panicked, now, again, left>>

\* case <-ctx.Done(): return in the replaced limiter's goroutine
Prev_CtxDone ==
    /\ prev.pc = "select"
    /\ prev.ctxDone
    /\ prev' = [prev EXCEPT !.pc = "done", !.tickerOn = FALSE]
    /\ UNCHANGED <<limiterVars, scraperVars, cpc>>
    /\ UNCHANGED <<cgot, rlm, setCalled, ret, panicked, now, again, left>>

\* The scope the replaced limiter was made with is cancelled.
Prev_Cancel ==
    /\ prev.pc # "none"
    /\ ~prev.ctxDone
    /\ prev' = [prev EXCEPT !.ctxDone = TRUE]
    /\ UNCHANGED <<limiterVars, scraperVars, cpc>>
    /\ UNCHANGED <<cgot, rlm, setCalled, ret, panicked, now, again, left>>

PrevLimiter == Prev_Start \/ Prev_TickFires \/ Prev_Tick \/ Prev_Send \/ Prev_CtxDone

NextReplace ==
    \/ Next
    \/ \E iv \in 1..MaxIntervals : SetRateLimit_Again(iv)
    \/ PrevLimiter
    \/ Prev_Cancel

\* SetRateLimit, possibly SetRateLimit again, then one scraper run.
SpecReplace == Init /\ [][NextReplace]_vars

\* C38: the goroutine of a replaced limiter has returned only if that
\* limiter's own scope was cancelled, whatever SetRateLimit, the run and its
\* Stop() did; its buffer never loses a token, and no step in which a token is
\* acquired touches it.
C38_PreviousLimiterLeaks ==
    /\ [](prev.pc = "done" => prev.ctxDone)
    /\ [][prev.pc # "none" =>
              /\ prev'.limitCh >= prev.limitCh
              /\ acquired' # acquired => prev' = prev]_vars

\* A run over two items is complete and has stopped the new limiter; the
\* replaced one, its scope live, sits in its send with its buffer full.
C38_Witness ==
    /\ prev.pc = "send"
    /\ prev.intervals = 2
    /\ prev.limitCh = 2
    /\ ~prev.ctxDone
    /\ Len(urls) = 2
    /\ Complete
    /\ supPc = "done"
    /\ acquired = 2

====
